---- MODULE Spec2Model ----
(***************************************************************************)
(* Response-mode engine of the Gemini relay: GoogleApiClient.send_request, *)
(* the retry decorator around _make_request, and the three response        *)
(* handlers (direct, true-streaming relay, concurrent pseudo-streaming).   *)
(* One logical request is followed from the call of send_request to the    *)
(* close of its output.  Further specifications cover a client that        *)
(* disconnects, two concurrent requests, the recovery of multi-line bodies *)
(* and build_gemini_payload_from_native.                                   *)
(***************************************************************************)
EXTENDS Integers, Sequences, FiniteSets, TLC

VARIABLES
    creds,                              \* TRUE iff a credential object was passed
    project_id,                         \* TRUE iff a project id was passed
    is_streaming,                       \* the caller's streaming flag
    PSEUDO_STREAMING_ENABLED,           \* config flag read by send_request
    NONSTREAM_KEEPALIVE_ENABLED,        \* config flag (src.config), read by no code under src/
    PSEUDO_STREAMING_MAX_HEARTBEATS,    \* config: cap of the heartbeat loop
    PSEUDO_STREAMING_HEARTBEAT_INTERVAL,\* config: heartbeat interval, in 0.1 s ticks
    pc,                                 \* position of the request / of its generator
    tstate,                             \* state of the _make_request call (worker)
    attempt,                            \* loop variable of retry_api_call.wrapper
    posts,                              \* every requests.post made, with what it did:
                                        \* [action, alt_sse, stream, outcome]
    calls,                              \* number of invocations of _make_request
    sleeps,                             \* the time.sleep calls of the retry wrapper: their
                                        \* lengths in seconds, in order
    resp,                               \* <<r>>: the upstream response returned, else <<>>
    exc,                                \* <<e>>: the exception _make_request raised, else <<>>
    task_done,                          \* api_task.done() as the event loop sees it
    heartbeat_count,                    \* local of concurrent_stream_generator
    since,                              \* ticks since last_heartbeat_time (saturating)
    response,                           \* <<r>>: what send_request returned, else <<>>
    pending,                            \* events the running generator has still to yield
    pos,                                \* stream_generator: upstream lines consumed
    slept,                              \* stream_generator: asyncio.sleep(0) calls made
    target_url,                         \* <<[action, alt_sse]>>: the URL send_request built
    stream,                             \* the stream argument of the _make_request call
    out,                                \* the events the client received, in order
    reqs,                               \* two concurrent requests on the one client
                                        \* instance: request -> its generator's state
    native                              \* build_gemini_payload_from_native: the request
                                        \* object it mutates, and its last call

vars == <<creds, project_id, is_streaming, PSEUDO_STREAMING_ENABLED,
          NONSTREAM_KEEPALIVE_ENABLED, PSEUDO_STREAMING_MAX_HEARTBEATS,
          PSEUDO_STREAMING_HEARTBEAT_INTERVAL, pc, tstate, attempt, posts, calls,
          sleeps, resp, exc, task_done, heartbeat_count, since,
          response, pending, pos, slept, target_url, stream, out, reqs, native>>

config == <<creds, project_id, is_streaming, PSEUDO_STREAMING_ENABLED,
            NONSTREAM_KEEPALIVE_ENABLED, PSEUDO_STREAMING_MAX_HEARTBEATS,
            PSEUDO_STREAMING_HEARTBEAT_INTERVAL>>

(***************************************************************************)
(* Bounds of the model.                                                    *)
(***************************************************************************)
MaxHeartbeatCap == 2    \* PSEUDO_STREAMING_MAX_HEARTBEATS ranges over 0..MaxHeartbeatCap
MaxIntervalTicks == 2   \* PSEUDO_STREAMING_HEARTBEAT_INTERVAL ranges over 1..MaxIntervalTicks
MaxLines == 2           \* upstream bodies and streams have at most MaxLines lines
MaxBuilds == 3          \* build_gemini_payload_from_native runs at most MaxBuilds times
                        \* on one request object

(***************************************************************************)
(* Program constants.                                                      *)
(***************************************************************************)
retries == 3            \* @retry_api_call(retries=3, delay=1)
delay == 1              \* seconds

None == <<>>
Some(x) == <<x>>
Min(a, b) == IF a < b THEN a ELSE b

(***************************************************************************)
(* JSON values.  A text is a sequence of tokens, so that concatenation and *)
(* emptiness are those of Python strings.                                  *)
(***************************************************************************)
Part(text, thought) == [text |-> text, thought |-> thought]

Candidate(hasContent, hasRole, parts, finishReason, safetyRatings) ==
    [hasContent |-> hasContent, hasRole |-> hasRole, parts |-> parts,
     finishReason |-> finishReason, safetyRatings |-> safetyRatings]

Payload(hasCandidates, candidates, usageMetadata, responseId) ==
    [hasCandidates |-> hasCandidates, candidates |-> candidates,
     usageMetadata |-> usageMetadata, responseId |-> responseId]

\* a JSON object of the upstream: {"response": payload} or the payload itself
Obj(wrapped, payload) == [wrapped |-> wrapped, payload |-> payload]

\* one line of an upstream body: empty, or text with or without the "data: "
\* marker whose rest is a JSON object (obj = <<o>>) or not JSON (obj = <<>>)
Line(empty, marker, obj) == [empty |-> empty, marker |-> marker, obj |-> obj]

PHello ==
    Payload(TRUE,
            <<Candidate(TRUE, TRUE, <<Part(<<"Hello">>, FALSE)>>, Some("STOP"), Some("safe"))>>,
            Some("usage"), Some("rid"))
PTwoParts ==
    Payload(TRUE,
            <<Candidate(TRUE, TRUE, <<Part(<<"think">>, TRUE), Part(<<"Hi">>, FALSE)>>,
                        Some("STOP"), None)>>,
            Some("usage"), None)
PTwoCandidates ==
    Payload(TRUE,
            <<Candidate(TRUE, TRUE, <<Part(<<"A">>, FALSE)>>, Some("STOP"), None),
              Candidate(TRUE, TRUE, <<Part(<<"B">>, FALSE)>>, Some("MAX_TOKENS"), None)>>,
            None, Some("rid"))
PNoRole ==
    Payload(TRUE,
            <<Candidate(TRUE, FALSE, <<Part(<<"Hello">>, FALSE)>>, None, None)>>,
            None, None)
PRoleThenNoRole ==
    Payload(TRUE,
            <<Candidate(TRUE, TRUE, <<Part(<<"A">>, FALSE)>>, None, None),
              Candidate(TRUE, FALSE, <<Part(<<"B">>, FALSE)>>, None, None)>>,
            None, None)
PNoParts ==
    Payload(TRUE, <<Candidate(TRUE, TRUE, <<>>, Some("STOP"), None)>>, Some("usage"), None)
PNoCandidates == Payload(FALSE, <<>>, Some("usage"), None)

Payloads == {PHello, PTwoParts, PTwoCandidates, PNoRole, PRoleThenNoRole, PNoParts,
             PNoCandidates}

LEmpty == Line(TRUE, FALSE, None)
LGarbage == Line(FALSE, FALSE, None)            \* "invalid json content here"
LBadData == Line(FALSE, TRUE, None)             \* "data: {broken"
LData(o) == Line(FALSE, TRUE, Some(o))          \* "data: {...}"
LPlain(o) == Line(FALSE, FALSE, Some(o))        \* "{...}"

\* lines that bodies of any length are built from
BaseLines == {LEmpty, LGarbage, LBadData, LData(Obj(TRUE, PHello)),
              LData(Obj(FALSE, PHello)), LPlain(Obj(TRUE, PHello))}

SeqsUpTo(S, n) == UNION {[1..k -> S] : k \in 0..n}

Bodies ==
    SeqsUpTo(BaseLines, MaxLines)
    \cup {<<LPlain(Obj(w, p))>> : w \in BOOLEAN, p \in Payloads}
    \cup {<<LData(Obj(w, p))>> : w \in BOOLEAN, p \in {PHello, PTwoParts}}

ErrStatuses == {400, 404, 503}
ErrBodies == {"error_with_message", "error_without_message", "no_error_key", "not_json"}
Causes == {"Connection error", "Timeout"}

\* an upstream HTTP response: status, body lines (status 200), class of the
\* error body (other statuses), and how reading the stream ends
Resp(status_code, lines, err, fail) ==
    [status_code |-> status_code, lines |-> lines, err |-> err, fail |-> fail]

Responses(streamed) ==
    {Resp(200, b, "none", f) : b \in Bodies,
                               f \in IF streamed THEN {"none", "RequestException", "Exception"}
                                     ELSE {"none"}}
    \cup {Resp(s, <<>>, e, "none") : s \in ErrStatuses, e \in ErrBodies}

(***************************************************************************)
(* What the client receives: documents and events share one shape.         *)
(***************************************************************************)
Doc(type, payload, raw, message, kind, code) ==
    [type |-> type, payload |-> payload, raw |-> raw, message |-> message,
     kind |-> kind, code |-> code]

HeartbeatEvent == Doc("heartbeat", None, None, None, None, None)     \* "data: {}\n\n"
ContentDoc(p) == Doc("content", Some(p), None, None, None, None)
NullDoc == Doc("null", None, None, None, None, None)                 \* json.dumps(None)
RawDoc(r) == Doc("raw", None, Some(r), None, None, None)             \* resp.content passed on
ErrorDoc(prefix, detail, kind, code) ==
    Doc("error", None, None, <<prefix, detail>>, kind, code)

(***************************************************************************)
(* Parsing of one-shot bodies.                                             *)
(***************************************************************************)
RECURSIVE DropLeadingEmpty(_)
DropLeadingEmpty(lines) ==
    IF lines # <<>> /\ Head(lines).empty THEN DropLeadingEmpty(Tail(lines)) ELSE lines

RECURSIVE DropTrailingEmpty(_)
DropTrailingEmpty(lines) ==
    IF lines # <<>> /\ lines[Len(lines)].empty
    THEN DropTrailingEmpty(SubSeq(lines, 1, Len(lines) - 1))
    ELSE lines

\* str.strip() on the body: leading and trailing blank lines go
strip(lines) == DropTrailingEmpty(DropLeadingEmpty(lines))

\* json.loads(text): <<o>> when the text is one JSON object (blank lines around
\* it are whitespace to the parser), <<>> when it raises JSONDecodeError
json_loads(lines) ==
    LET t == strip(lines)
    IN  IF Len(t) = 1 /\ ~t[1].marker /\ t[1].obj # <<>> THEN t[1].obj ELSE None

\* text[len('data: '):] when text.startswith('data: '), else text
strip_data_prefix(lines) ==
    IF lines # <<>> /\ ~lines[1].empty /\ lines[1].marker
    THEN <<[lines[1] EXCEPT !.marker = FALSE]>> \o Tail(lines)
    ELSE lines

\* "invalid_request_error" if resp.status_code == 404 else "api_error"
error_type(status_code) ==
    IF status_code = 404 THEN "invalid_request_error" ELSE "api_error"

UpstreamMessage == <<"", "upstream message">>
ApiErrorMessage(status_code) == <<"API error: ", ToString(status_code)>>

(***************************************************************************)
(* _handle_non_streaming_response                                          *)
(***************************************************************************)
PlainResponse(status_code, body) ==
    [type |-> "Response", status_code |-> status_code, body |-> Some(body),
     gen |-> "none"]

StreamingResponse(status_code, gen) ==
    [type |-> "StreamingResponse", status_code |-> status_code, body |-> None,
     gen |-> gen]

handle_non_streaming_response(r) ==
    IF r.status_code = 200
    THEN LET parsed == json_loads(strip_data_prefix(r.lines))
         IN  IF parsed # <<>>
             THEN PlainResponse(200, IF parsed[1].wrapped THEN ContentDoc(parsed[1].payload)
                                     ELSE NullDoc)
             ELSE PlainResponse(r.status_code, RawDoc(r.lines))
    ELSE IF r.err = "error_with_message"
         THEN PlainResponse(r.status_code,
                  Doc("error", None, None, UpstreamMessage,
                      Some(error_type(r.status_code)), Some(r.status_code)))
         ELSE IF r.err = "error_without_message"
         THEN PlainResponse(r.status_code,
                  Doc("error", None, None, ApiErrorMessage(r.status_code),
                      Some(error_type(r.status_code)), Some(r.status_code)))
         ELSE PlainResponse(r.status_code, RawDoc(<<r.err>>))

(***************************************************************************)
(* _handle_streaming_response                                              *)
(***************************************************************************)
\* the event of error_generator
error_generator_event(r) ==
    Doc("error", None, None,
        IF r.err = "error_with_message" THEN UpstreamMessage
        ELSE <<"Google API error: ", ToString(r.status_code)>>,
        Some(error_type(r.status_code)), Some(r.status_code))

handle_streaming_response(r) ==
    IF r.status_code # 200
    THEN StreamingResponse(r.status_code, "error_generator")
    ELSE StreamingResponse(200, "stream_generator")

\* mutant: only objects with a "response" field are relayed
stream_line_events_wrapped_only(line) ==
    IF ~line.empty /\ line.marker /\ line.obj # <<>> /\ line.obj[1].wrapped
    THEN <<ContentDoc(line.obj[1].payload)>>
    ELSE <<>>

\* what stream_generator yields for one upstream line
stream_line_events(line) ==
    IF ~line.empty /\ line.marker /\ line.obj # <<>>
    THEN <<ContentDoc(line.obj[1].payload)>>
    ELSE <<>>

\* whether stream_generator awaits asyncio.sleep(0) after the line's event
stream_line_sleeps(line) ==
    ~line.empty /\ line.marker /\ line.obj # <<>> /\ line.obj[1].wrapped

\* mutant: every failure of the read is reported as an unexpected error, code 500
stream_failure_event_always_500(fail) ==
    Doc("error", None, None, <<"An unexpected error occurred: ", fail>>,
        Some("api_error"), Some(500))

\* the event of stream_generator's except clauses
stream_failure_event(fail) ==
    IF fail = "RequestException"
    THEN Doc("error", None, None, <<"Upstream request failed: ", fail>>,
             Some("api_error"), Some(502))
    ELSE Doc("error", None, None, <<"An unexpected error occurred: ", fail>>,
             Some("api_error"), Some(500))

(***************************************************************************)
(* concurrent_stream_generator, after the api task has completed           *)
(***************************************************************************)
UnexpectedErrorEvent(detail) ==
    Doc("error", None, None, <<"Unexpected error: ", detail>>, Some("api_error"), Some(500))

\* the chunk of part i of a candidate
chunk_response(actual, candidate, i) ==
    LET last == i = Len(candidate.parts)
    IN  ContentDoc(Payload(TRUE,
            <<Candidate(TRUE, TRUE, <<candidate.parts[i]>>,
                        IF last THEN candidate.finishReason ELSE None,
                        IF last THEN candidate.safetyRatings ELSE None)>>,
            IF last THEN actual.usageMetadata ELSE None,
            IF last THEN actual.responseId ELSE None))

\* the chunks of the candidates from the k-th on; candidate["content"]["role"]
\* of a candidate without role raises KeyError, which the outer except turns
\* into an error event
RECURSIVE fragment_from(_, _)
fragment_from(actual, k) ==
    IF k > Len(actual.candidates) THEN <<>>
    ELSE LET candidate == actual.candidates[k]
         IN  IF ~candidate.hasContent \/ candidate.parts = <<>>
             THEN fragment_from(actual, k + 1)
             ELSE IF ~candidate.hasRole
             THEN <<UnexpectedErrorEvent("'role'")>>
             ELSE [i \in 1..Len(candidate.parts) |-> chunk_response(actual, candidate, i)]
                  \o fragment_from(actual, k + 1)

\* mutant: no else branch, only candidates are turned into events
fragment_candidates_only(actual) == fragment_from(actual, 1)

\* "if 'candidates' in actual_response", else the payload as a single chunk
fragment(actual) ==
    IF actual.hasCandidates THEN fragment_from(actual, 1) ELSE <<ContentDoc(actual)>>

\* the fallback of the except json.JSONDecodeError clause
EmptyRecovery ==
    [text |-> <<>>, thoughts |-> <<>>, finishReason |-> None, safetyRatings |-> None,
     usageMetadata |-> None, responseId |-> None]

RECURSIVE collect_parts(_, _)
collect_parts(acc, parts) ==
    IF parts = <<>> THEN acc
    ELSE LET part == Head(parts)
         IN  collect_parts(IF part.thought
                           THEN [acc EXCEPT !.thoughts = @ \o part.text]
                           ELSE [acc EXCEPT !.text = @ \o part.text],
                           Tail(parts))

RECURSIVE collect_candidates(_, _)
collect_candidates(acc, candidates) ==
    IF candidates = <<>> THEN acc
    ELSE LET candidate == Head(candidates)
             a1 == IF candidate.hasContent THEN collect_parts(acc, candidate.parts) ELSE acc
             a2 == IF candidate.finishReason # <<>>
                   THEN [a1 EXCEPT !.finishReason = candidate.finishReason] ELSE a1
             a3 == IF candidate.safetyRatings # <<>>
                   THEN [a2 EXCEPT !.safetyRatings = candidate.safetyRatings] ELSE a2
         IN  collect_candidates(a3, Tail(candidates))

collect_chunk(acc, chunk) ==
    LET a1 == IF chunk.hasCandidates THEN collect_candidates(acc, chunk.candidates) ELSE acc
        a2 == IF chunk.usageMetadata # <<>>
              THEN [a1 EXCEPT !.usageMetadata = chunk.usageMetadata] ELSE a1
    IN  IF chunk.responseId # <<>> THEN [a2 EXCEPT !.responseId = chunk.responseId] ELSE a2

RECURSIVE collect_lines(_, _)
collect_lines(acc, lines) ==
    IF lines = <<>> THEN acc
    ELSE LET line == Head(lines)
         IN  collect_lines(IF ~line.empty /\ line.marker /\ line.obj # <<>>
                              /\ line.obj[1].wrapped
                           THEN collect_chunk(acc, line.obj[1].payload)
                           ELSE acc,
                           Tail(lines))

\* "if final_finish_reason:" and the like: a value that is present and not empty
truthy(v) == v # None /\ v[1] # ""

\* mutant: the parts in order of first appearance, thoughts before text
fallback_events_thoughts_first(lines) ==
    LET acc == collect_lines(EmptyRecovery, lines)
    IN  IF acc.text # <<>> \/ acc.thoughts # <<>>
        THEN <<ContentDoc(Payload(TRUE,
                   <<Candidate(TRUE, TRUE,
                               (IF acc.thoughts # <<>> THEN <<Part(acc.thoughts, TRUE)>>
                                ELSE <<>>)
                               \o (IF acc.text # <<>> THEN <<Part(acc.text, FALSE)>> ELSE <<>>),
                               acc.finishReason, acc.safetyRatings)>>,
                   acc.usageMetadata, acc.responseId))>>
        ELSE <<>>

fallback_events(lines) ==
    LET acc == collect_lines(EmptyRecovery, lines)
        keep(v) == IF truthy(v) THEN v ELSE None
    IN  IF acc.text # <<>> \/ acc.thoughts # <<>>
        THEN <<ContentDoc(Payload(TRUE,
                   <<Candidate(TRUE, TRUE,
                               (IF acc.text # <<>> THEN <<Part(acc.text, FALSE)>> ELSE <<>>)
                               \o (IF acc.thoughts # <<>> THEN <<Part(acc.thoughts, TRUE)>>
                                   ELSE <<>>),
                               keep(acc.finishReason), keep(acc.safetyRatings))>>,
                   keep(acc.usageMetadata), keep(acc.responseId)))>>
        ELSE <<>>

\* mutant: no return after the envelope of an upstream error object, so that the
\* fallback envelope follows it
pseudo_response_events_missing_return(r) ==
    IF r.status_code # 200
    THEN (IF r.err = "error_with_message"
          THEN <<Doc("error", None, None, UpstreamMessage,
                     Some(error_type(r.status_code)), Some(r.status_code))>>
          ELSE IF r.err = "error_without_message"
          THEN <<Doc("error", None, None, ApiErrorMessage(r.status_code),
                     Some(error_type(r.status_code)), Some(r.status_code))>>
          ELSE <<>>)
         \o <<Doc("error", None, None, ApiErrorMessage(r.status_code),
                  Some("api_error"), Some(r.status_code))>>
    ELSE LET parsed == json_loads(r.lines)
         IN  IF parsed # <<>> THEN fragment(parsed[1].payload)
             ELSE fallback_events(strip(r.lines))

\* the events after "resp = await api_task" returned r
pseudo_response_events(r) ==
    IF r.status_code # 200
    THEN IF r.err = "error_with_message"
         THEN <<Doc("error", None, None, UpstreamMessage,
                    Some(error_type(r.status_code)), Some(r.status_code))>>
         ELSE IF r.err = "error_without_message"
         THEN <<Doc("error", None, None, ApiErrorMessage(r.status_code),
                    Some(error_type(r.status_code)), Some(r.status_code))>>
         ELSE <<Doc("error", None, None, ApiErrorMessage(r.status_code),
                    Some("api_error"), Some(r.status_code))>>
    ELSE LET parsed == json_loads(r.lines)
         IN  IF parsed # <<>> THEN fragment(parsed[1].payload)
             ELSE fallback_events(strip(r.lines))

\* mutant: the failure of the call is reported as a bad gateway, code 502
api_task_failure_event_502(e) ==
    Doc("error", None, None, <<"API request failed: ", e.cause>>, Some("api_error"), Some(502))

\* the event after "await api_task" raised e
api_task_failure_event(e) ==
    Doc("error", None, None, <<"API request failed: ", e.cause>>, Some("api_error"), Some(500))

(***************************************************************************)
(* build_gemini_payload_from_native                                        *)
(***************************************************************************)
\* a tool of the request: a dict with one key; its value is a dict, given by
\* its keys ({} is <<>>)
Tool(key, value) == [key |-> key, value |-> value]

\* {"googleSearch": {}}: the tool the function appends
GoogleSearchTool == Tool("googleSearch", <<>>)

\* a native request: its tools (hasTools: "tools" in native_request), its
\* safetySettings, and generationConfig with thinkingConfig (<<>> when absent)
NativeRequest(hasTools, tools, safetySettings, generationConfig) ==
    [hasTools |-> hasTools, tools |-> tools, safetySettings |-> safetySettings,
     generationConfig |-> generationConfig]

\* the helpers of src.config, as the tests of the repository fix them
is_search_model(model_name) ==
    model_name \in {"models/gemini-2.5-pro-search", "models/gemini-2.5-pro-search-nothinking"}

\* only the first matching suffix is removed
get_base_model_name(model_name) ==
    IF model_name = "models/gemini-2.5-pro-search-nothinking"
    THEN "models/gemini-2.5-pro-search"
    ELSE IF model_name = "models/gemini-2.5-flash-nothinking"
    THEN "models/gemini-2.5-flash"
    ELSE "models/gemini-2.5-pro"

get_thinking_budget(model_name) ==
    IF model_name \in {"models/gemini-2.5-pro-nothinking",
                       "models/gemini-2.5-pro-search-nothinking"}
    THEN 128
    ELSE IF model_name = "models/gemini-2.5-flash-nothinking" THEN 0
    ELSE IF model_name = "models/gemini-2.5-pro-maxthinking" THEN 32768
    ELSE 0 - 1

should_include_thoughts(model_name) == model_name # "models/gemini-2.5-flash-nothinking"

\* tool.get("googleSearch"): the value of the key, None when the tool has not got it
tool_get(tool, key) == IF tool.key = key THEN Some(tool.value) ELSE None

\* Python truth of an optional dict: None and {} are false
dict_truthy(v) == v # None /\ v[1] # <<>>

\* any(tool.get("googleSearch") for tool in native_request["tools"])
any_google_search(tools) ==
    \E i \in DOMAIN tools : dict_truthy(tool_get(tools[i], "googleSearch"))

\* the request object after the function has run on it for the model
built_request(native_request, model_from_path) ==
    LET oldConfig == IF native_request.generationConfig = None THEN [thinkingConfig |-> None]
                     ELSE native_request.generationConfig[1]
        tools == IF native_request.hasTools THEN native_request.tools ELSE <<>>
    IN  [safetySettings |-> Some("DEFAULT_SAFETY_SETTINGS"),
         generationConfig |->
             Some([oldConfig EXCEPT !.thinkingConfig =
                      Some([includeThoughts |-> should_include_thoughts(model_from_path),
                            thinkingBudget |-> get_thinking_budget(model_from_path)])]),
         hasTools |-> native_request.hasTools \/ is_search_model(model_from_path),
         tools |-> IF is_search_model(model_from_path) /\ ~any_google_search(tools)
                   THEN Append(tools, GoogleSearchTool)
                   ELSE tools]

\* no call of the function so far
NoNativeCall ==
    [request |-> NativeRequest(FALSE, <<>>, None, None), builds |-> 0,
     model_from_path |-> None, result |-> None]

(***************************************************************************)
(* Initial state: one request about to be sent, under any configuration.   *)
(***************************************************************************)
Init ==
    /\ creds \in BOOLEAN
    /\ project_id \in BOOLEAN
    /\ is_streaming \in BOOLEAN
    /\ PSEUDO_STREAMING_ENABLED \in BOOLEAN
    /\ NONSTREAM_KEEPALIVE_ENABLED \in BOOLEAN
    /\ PSEUDO_STREAMING_MAX_HEARTBEATS \in 0..MaxHeartbeatCap
    /\ PSEUDO_STREAMING_HEARTBEAT_INTERVAL \in 1..MaxIntervalTicks
    /\ pc = "start"
    /\ tstate = "idle"
    /\ attempt = 0
    /\ posts = <<>>
    /\ calls = 0
    /\ sleeps = <<>>
    /\ resp = <<>>
    /\ exc = <<>>
    /\ task_done = FALSE
    /\ heartbeat_count = 0
    /\ since = 0
    /\ response = <<>>
    /\ pending = <<>>
    /\ pos = 0
    /\ slept = 0
    /\ target_url = <<>>
    /\ stream = FALSE
    /\ out = <<>>
    /\ reqs = <<>>
    /\ native = NoNativeCall

(***************************************************************************)
(* retry_api_call.wrapper around requests.post                             *)
(***************************************************************************)
Outcome(kind, cause, r) == [kind |-> kind, cause |-> cause, resp |-> r]

\* what one requests.post can do
Outcomes(streamArg) ==
    {Outcome("RequestException", c, <<>>) : c \in Causes}
    \cup {Outcome("Exception", "unexpected", <<>>)}
    \cup {Outcome("response", "", Some(r)) : r \in Responses(streamArg)}

\* mutant: "except Exception", every exception is retried
is_retried_any_exception(o) == o.kind # "response"

\* mutant: an error status is retried like a network failure
is_retried_or_error_status(o) ==
    \/ o.kind = "RequestException"
    \/ (o.kind = "response" /\ o.resp[1].status_code # 200)

\* except requests.exceptions.RequestException
is_retried(o) == o.kind = "RequestException"

\* mutant: off by one, the last failure is retried once more
has_attempts_left_off_by_one(a) == a < retries

\* if attempt < retries - 1
has_attempts_left(a) == a < retries - 1

\* mutant: the delay grows with the attempt
retry_delay_backoff(a) == delay * (a + 1)

\* time.sleep(delay): the same length after every failed attempt
retry_delay(a) == delay

\* one iteration of "for attempt in range(retries)"
wrapper ==
    /\ tstate = "running"
    /\ \E o \in Outcomes(stream) :
        /\ posts' = Append(posts, [action |-> target_url[1].action,
                                   alt_sse |-> target_url[1].alt_sse,
                                   stream |-> stream,
                                   outcome |-> o])
        /\ IF o.kind = "response" /\ ~is_retried(o)
           THEN /\ tstate' = "returned"
                /\ resp' = o.resp
                /\ UNCHANGED <<attempt, sleeps, exc>>
           ELSE IF is_retried(o)
           THEN /\ resp' = <<>>
                /\ IF has_attempts_left(attempt)
                   THEN /\ sleeps' = Append(sleeps, retry_delay(attempt))
                        /\ attempt' = attempt + 1
                        /\ UNCHANGED <<tstate, exc>>
                   ELSE /\ tstate' = "raised"
                        /\ exc' = Some([req |-> TRUE, cause |-> o.cause])
                        /\ UNCHANGED <<attempt, sleeps>>
           ELSE /\ tstate' = "raised"
                /\ exc' = Some([req |-> FALSE, cause |-> o.cause])
                /\ UNCHANGED <<attempt, sleeps, resp>>
    /\ UNCHANGED <<config, reqs, native, pc, calls, task_done, heartbeat_count, since, response,
                   pending, pos, slept, target_url, stream, out>>

(***************************************************************************)
(* send_request                                                            *)
(***************************************************************************)
\* mutant: the project id is not checked
invalid_session_creds_only(c, p) == ~c

\* if not creds or not project_id
invalid_session(c, p) == ~c \/ ~p

AuthErrorResponse ==
    PlainResponse(500, ErrorDoc("Invalid session provided to send_request.", "",
                                Some("auth_error"), Some(500)))

\* mutant: the non-streaming endpoint whatever the mode
target_always_generate_content(streaming, pseudo) ==
    [action |-> "generateContent", alt_sse |-> FALSE]

\* mutant: the streaming endpoint for every streaming request, pseudo or not
target_by_streaming_flag(streaming, pseudo) ==
    IF streaming
    THEN [action |-> "streamGenerateContent", alt_sse |-> TRUE]
    ELSE [action |-> "generateContent", alt_sse |-> FALSE]

\* the action and URL: the streaming endpoint only for true streaming
target(streaming, pseudo) ==
    IF streaming /\ ~pseudo
    THEN [action |-> "streamGenerateContent", alt_sse |-> TRUE]
    ELSE [action |-> "generateContent", alt_sse |-> FALSE]

\* mutant: the pseudo-streaming flag alone selects the generator
uses_pseudo_streaming_flag_only(streaming, pseudo) == pseudo

\* the branch of the try block: pseudo-streaming generator, or a direct call
uses_pseudo_streaming(streaming, pseudo) == streaming /\ pseudo

\* send_request up to the call of _make_request (or to its return, when it
\* makes none)
send_request ==
    /\ pc = "start"
    /\ IF invalid_session(creds, project_id)
       THEN /\ response' = Some(AuthErrorResponse)
            /\ pc' = "done"
            /\ UNCHANGED <<tstate, calls, target_url, stream>>
       ELSE /\ target_url' = Some(target(is_streaming, PSEUDO_STREAMING_ENABLED))
            /\ IF uses_pseudo_streaming(is_streaming, PSEUDO_STREAMING_ENABLED)
               THEN /\ response' = Some(StreamingResponse(200, "concurrent_stream_generator"))
                    /\ pc' = "gen_ready"
                    /\ UNCHANGED <<tstate, calls, stream>>
               ELSE /\ tstate' = "running"
                    /\ calls' = calls + 1
                    /\ stream' = is_streaming
                    /\ pc' = "make_request"
                    /\ UNCHANGED response
    /\ UNCHANGED <<config, reqs, native, attempt, posts, sleeps, resp, exc, task_done,
                   heartbeat_count, since, pending, pos, slept, out>>

\* mutant: the messages of the two except clauses are exchanged
exception_response_swapped(e) ==
    IF e.req
    THEN PlainResponse(500, ErrorDoc("Unexpected error: ", e.cause, None, None))
    ELSE PlainResponse(500, ErrorDoc("Request failed after retries: ", e.cause, None, None))

\* the response send_request builds in its except clauses
exception_response(e) ==
    IF e.req
    THEN PlainResponse(500, ErrorDoc("Request failed after retries: ", e.cause, None, None))
    ELSE PlainResponse(500, ErrorDoc("Unexpected error: ", e.cause, None, None))

\* mutant: every upstream response is handled as a one-shot document
handled_response_always_document(streaming, r) == handle_non_streaming_response(r)

\* the response send_request builds from the upstream response
handled_response(streaming, r) ==
    IF streaming THEN handle_streaming_response(r) ELSE handle_non_streaming_response(r)

\* send_request from the return of _make_request to its own return
send_request_return ==
    /\ pc = "make_request"
    /\ tstate \in {"returned", "raised"}
    /\ IF tstate = "returned"
       THEN response' = Some(handled_response(is_streaming, resp[1]))
       ELSE response' = Some(exception_response(exc[1]))
    /\ pc' = IF response'[1].type = "StreamingResponse" THEN "gen_ready" ELSE "done"
    /\ UNCHANGED <<config, reqs, native, tstate, attempt, posts, calls, sleeps, resp, exc,
                   task_done, heartbeat_count, since, pending, pos, slept, target_url,
                   stream, out>>

(***************************************************************************)
(* The generators, driven by the client that iterates the body.            *)
(***************************************************************************)
\* first resumption of the generator of the StreamingResponse
generator_start ==
    /\ pc = "gen_ready"
    /\ IF response[1].gen = "error_generator"
       THEN /\ pending' = <<error_generator_event(resp[1])>>
            /\ pc' = "emit"
            /\ UNCHANGED <<tstate, heartbeat_count, since, pos>>
       ELSE IF response[1].gen = "stream_generator"
       THEN /\ pos' = 0
            /\ pc' = "stream_read"
            /\ UNCHANGED <<tstate, heartbeat_count, since, pending>>
       ELSE \* api_task = asyncio.create_task(make_api_request())
            /\ tstate' = "scheduled"
            /\ heartbeat_count' = 0
            /\ since' = 0
            /\ pc' = "hb_check"
            /\ UNCHANGED <<pending, pos>>
    /\ UNCHANGED <<config, reqs, native, attempt, posts, calls, sleeps, resp, exc, task_done,
                   response, slept, target_url, stream, out>>

\* stream_generator: one line of resp.iter_lines()
stream_next ==
    /\ pc = "stream_read"
    /\ pos < Len(resp[1].lines)
    /\ LET line == resp[1].lines[pos + 1]
       IN  /\ out' = out \o stream_line_events(line)
           /\ slept' = IF stream_line_sleeps(line) THEN slept + 1 ELSE slept
    /\ pos' = pos + 1
    /\ UNCHANGED <<config, reqs, native, pc, tstate, attempt, posts, calls, sleeps, resp, exc,
                   task_done, heartbeat_count, since, response, pending, target_url,
                   stream>>

\* stream_generator: iter_lines() is exhausted, or raises
stream_end ==
    /\ pc = "stream_read"
    /\ pos = Len(resp[1].lines)
    /\ out' = IF resp[1].fail = "none" THEN out
              ELSE Append(out, stream_failure_event(resp[1].fail))
    /\ pc' = "closed"
    /\ UNCHANGED <<config, reqs, native, tstate, attempt, posts, calls, sleeps, resp, exc,
                   task_done, heartbeat_count, since, response, pending, pos, slept,
                   target_url, stream>>

\* mutant: the loop tests the cap only, not api_task.done()
heartbeat_loop_continues_cap_only(done, count, cap) == count < cap

\* while not api_task.done() and heartbeat_count < max_initial_heartbeats
heartbeat_loop_continues(done, count, cap) == ~done /\ count < cap

\* mutant: a heartbeat at every turn of the loop, the first one at once
heartbeat_due_at_once(elapsed, interval) == TRUE

\* if current_time - last_heartbeat_time >= PSEUDO_STREAMING_HEARTBEAT_INTERVAL
heartbeat_due(elapsed, interval) == elapsed >= interval

\* concurrent_stream_generator: the loop test and the body up to its yield or sleep
heartbeat_check ==
    /\ pc = "hb_check"
    /\ IF heartbeat_loop_continues(task_done, heartbeat_count,
                                   PSEUDO_STREAMING_MAX_HEARTBEATS)
       THEN IF heartbeat_due(since, PSEUDO_STREAMING_HEARTBEAT_INTERVAL)
            THEN /\ out' = Append(out, HeartbeatEvent)
                 /\ pc' = "hb_yield"
            ELSE /\ pc' = "hb_sleep"
                 /\ UNCHANGED out
       ELSE /\ pc' = "await_task"
            /\ UNCHANGED out
    /\ UNCHANGED <<config, reqs, native, tstate, attempt, posts, calls, sleeps, resp, exc,
                   task_done, heartbeat_count, since, response, pending, pos, slept,
                   target_url, stream>>

\* the client asks for the next event: last_heartbeat_time = current_time,
\* heartbeat_count += 1, and the generator reaches its sleep
heartbeat_resume ==
    /\ pc = "hb_yield"
    /\ since' = 0
    /\ heartbeat_count' = heartbeat_count + 1
    /\ pc' = "hb_sleep"
    /\ UNCHANGED <<config, reqs, native, tstate, attempt, posts, calls, sleeps, resp, exc,
                   task_done, response, pending, pos, slept, target_url, stream, out>>

\* await asyncio.sleep(0.1) returns: at least one tick has passed
heartbeat_sleep ==
    /\ pc = "hb_sleep"
    /\ \E d \in 1..MaxIntervalTicks :
        since' = Min(since + d, PSEUDO_STREAMING_HEARTBEAT_INTERVAL)
    /\ pc' = "hb_check"
    /\ UNCHANGED <<config, reqs, native, tstate, attempt, posts, calls, sleeps, resp, exc,
                   task_done, heartbeat_count, response, pending, pos, slept, target_url,
                   stream, out>>

\* the points where concurrent_stream_generator is suspended and the event
\* loop runs other callbacks
suspended ==
    \/ pc \in {"hb_yield", "hb_sleep", "await_task"}
    \/ (pc = "disconnected" /\ response[1].gen = "concurrent_stream_generator")

\* the event loop starts make_api_request: run_in_executor(None, self._make_request,
\* target_url, final_post_data, request_headers, False)
api_task_start ==
    /\ suspended
    /\ tstate = "scheduled"
    /\ tstate' = "running"
    /\ calls' = calls + 1
    /\ stream' = FALSE
    /\ UNCHANGED <<config, reqs, native, pc, attempt, posts, sleeps, resp, exc, task_done,
                   heartbeat_count, since, response, pending, pos, slept, target_url, out>>

\* the event loop completes api_task with the worker's result or exception
api_task_complete ==
    /\ suspended
    /\ tstate \in {"returned", "raised"}
    /\ ~task_done
    /\ task_done' = TRUE
    /\ UNCHANGED <<config, reqs, native, pc, tstate, attempt, posts, calls, sleeps, resp, exc,
                   heartbeat_count, since, response, pending, pos, slept, target_url,
                   stream, out>>

\* mutant: once the heartbeat cap is reached the generator gives up and reports
\* a timeout, whatever the task returns
await_api_task_gives_up_at_cap ==
    /\ pc = "await_task"
    /\ task_done
    /\ pending' = IF heartbeat_count > 0 /\ heartbeat_count = PSEUDO_STREAMING_MAX_HEARTBEATS
                  THEN <<UnexpectedErrorEvent("timeout")>>
                  ELSE IF tstate = "raised" THEN <<api_task_failure_event(exc[1])>>
                  ELSE pseudo_response_events(resp[1])
    /\ pc' = "emit"
    /\ UNCHANGED <<config, reqs, native, tstate, attempt, posts, calls, sleeps, resp, exc,
                   task_done, heartbeat_count, since, response, pos, slept, target_url,
                   stream, out>>

\* resp = await api_task, and everything up to the first yield after it
await_api_task ==
    /\ pc = "await_task"
    /\ task_done
    /\ pending' = IF tstate = "raised" THEN <<api_task_failure_event(exc[1])>>
                  ELSE pseudo_response_events(resp[1])
    /\ pc' = "emit"
    /\ UNCHANGED <<config, reqs, native, tstate, attempt, posts, calls, sleeps, resp, exc,
                   task_done, heartbeat_count, since, response, pos, slept, target_url,
                   stream, out>>

\* mutant: a keepalive keeps running and puts a heartbeat after each event
emit_with_keepalive ==
    /\ pc = "emit"
    /\ pending # <<>>
    /\ out' = out \o <<Head(pending), HeartbeatEvent>>
    /\ pending' = Tail(pending)
    /\ UNCHANGED <<config, reqs, native, pc, tstate, attempt, posts, calls, sleeps, resp, exc,
                   task_done, heartbeat_count, since, response, pos, slept, target_url,
                   stream>>

\* the generator yields its next event
emit ==
    /\ pc = "emit"
    /\ pending # <<>>
    /\ out' = Append(out, Head(pending))
    /\ pending' = Tail(pending)
    /\ UNCHANGED <<config, reqs, native, pc, tstate, attempt, posts, calls, sleeps, resp, exc,
                   task_done, heartbeat_count, since, response, pos, slept, target_url,
                   stream>>

\* the generator returns: the stream closes
close ==
    /\ pc = "emit"
    /\ pending = <<>>
    /\ pc' = "closed"
    /\ UNCHANGED <<config, reqs, native, tstate, attempt, posts, calls, sleeps, resp, exc,
                   task_done, heartbeat_count, since, response, pending, pos, slept,
                   target_url, stream, out>>

Next ==
    \/ send_request
    \/ wrapper
    \/ send_request_return
    \/ generator_start
    \/ stream_next
    \/ stream_end
    \/ heartbeat_check
    \/ heartbeat_resume
    \/ heartbeat_sleep
    \/ api_task_start
    \/ api_task_complete
    \/ await_api_task
    \/ emit
    \/ close

Spec == Init /\ [][Next]_vars

(***************************************************************************)
(* Client disconnect: the server stops iterating the body and closes the   *)
(* generator where it is suspended.                                        *)
(***************************************************************************)
\* the generator is suspended at a yield or at an await, or not yet started
interruptible ==
    pc \in {"gen_ready", "stream_read", "hb_yield", "hb_sleep", "await_task", "emit"}

\* the client goes away: GeneratorExit (at a yield) or CancelledError (at an
\* await) is thrown into the generator
disconnect ==
    /\ interruptible
    /\ pc' = "closing"
    /\ UNCHANGED <<config, reqs, native, tstate, attempt, posts, calls, sleeps, resp, exc,
                   task_done, heartbeat_count, since, response, pending, pos, slept,
                   target_url, stream, out>>

\* mutant: the generator catches the exception thrown into it and yields an
\* error event
generator_exit_caught ==
    /\ pc = "closing"
    /\ out' = Append(out, UnexpectedErrorEvent("cancelled"))
    /\ pc' = "disconnected"
    /\ UNCHANGED <<config, reqs, native, tstate, attempt, posts, calls, sleeps, resp, exc,
                   task_done, heartbeat_count, since, response, pending, pos, slept,
                   target_url, stream>>

\* neither exception is an Exception: no except clause of the generators
\* catches it, and the generator ends without yielding
generator_exit ==
    /\ pc = "closing"
    /\ pc' = "disconnected"
    /\ UNCHANGED <<config, reqs, native, tstate, attempt, posts, calls, sleeps, resp, exc,
                   task_done, heartbeat_count, since, response, pending, pos, slept,
                   target_url, stream, out>>

\* streaming requests with a valid session
InitStreaming ==
    /\ Init
    /\ creds /\ project_id
    /\ is_streaming
    /\ ~NONSTREAM_KEEPALIVE_ENABLED

NextDisconnect ==
    \/ Next
    \/ disconnect
    \/ generator_exit

\* a streaming request whose client may disconnect at any suspension point
SpecDisconnect == InitStreaming /\ [][NextDisconnect]_vars

\* every upstream attempt eventually returns or fails, the event loop runs its
\* callbacks and timers, and the client keeps consuming: a step that can be
\* taken is eventually taken
FairSpec == Spec /\ WF_vars(Next)

(***************************************************************************)
(* Two pseudo-streaming requests served concurrently by the one client     *)
(* instance.  Each call of send_request creates its own generator; the     *)
(* generators run on one event loop, which interleaves them at their       *)
(* suspension points, and each call of _make_request runs in its own       *)
(* worker.  The configuration is the module-level one, shared and only     *)
(* read.                                                                   *)
(***************************************************************************)
Requests == {1, 2}

\* the variables of the single request, which do not move here
one == <<pc, tstate, attempt, posts, calls, sleeps, resp, exc, task_done,
         heartbeat_count, since, response, pending, pos, slept, target_url, stream, out>>

\* the locals of one concurrent_stream_generator and of its _make_request call
NewRequest ==
    [pc |-> "start", tstate |-> "idle", attempt |-> 0, posts |-> <<>>, resp |-> <<>>,
     exc |-> <<>>, task_done |-> FALSE, heartbeat_count |-> 0, since |-> 0,
     pending |-> <<>>, out |-> <<>>]

\* what the upstream sends to request r on success: a payload of its own
UpstreamFor(r) == IF r = 1 THEN PHello ELSE PTwoParts

\* what one requests.post of request r can do
OutcomesFor(r) ==
    {Outcome("RequestException", "Timeout", <<>>),
     Outcome("response", "", Some(Resp(200, <<LPlain(Obj(TRUE, UpstreamFor(r)))>>,
                                       "none", "none"))),
     Outcome("response", "", Some(Resp(503, <<>>, "error_with_message", "none")))}

InitTwo ==
    /\ creds = TRUE
    /\ project_id = TRUE
    /\ is_streaming = TRUE
    /\ PSEUDO_STREAMING_ENABLED = TRUE
    /\ NONSTREAM_KEEPALIVE_ENABLED = FALSE
    /\ PSEUDO_STREAMING_MAX_HEARTBEATS \in 0..MaxHeartbeatCap
    /\ PSEUDO_STREAMING_HEARTBEAT_INTERVAL \in 1..MaxIntervalTicks
    /\ pc = "start" /\ tstate = "idle" /\ attempt = 0 /\ posts = <<>> /\ calls = 0
    /\ sleeps = <<>> /\ resp = <<>> /\ exc = <<>> /\ task_done = FALSE
    /\ heartbeat_count = 0 /\ since = 0 /\ response = <<>> /\ pending = <<>>
    /\ pos = 0 /\ slept = 0 /\ target_url = <<>> /\ stream = FALSE /\ out = <<>>
    /\ reqs = [r \in Requests |-> NewRequest]
    /\ native = NoNativeCall

\* send_request returns the StreamingResponse around a new generator, and the
\* generator runs up to the heartbeat loop: api_task = asyncio.create_task(...)
two_generator_start(r) ==
    /\ reqs[r].pc = "start"
    /\ ~invalid_session(creds, project_id)
    /\ uses_pseudo_streaming(is_streaming, PSEUDO_STREAMING_ENABLED)
    /\ reqs' = [reqs EXCEPT ![r].pc = "hb_check", ![r].tstate = "scheduled",
                            ![r].heartbeat_count = 0, ![r].since = 0]
    /\ UNCHANGED <<config, one, native>>

two_suspended(r) == reqs[r].pc \in {"hb_yield", "hb_sleep", "await_task"}

\* the event loop starts make_api_request of request r in a worker
two_api_task_start(r) ==
    /\ two_suspended(r)
    /\ reqs[r].tstate = "scheduled"
    /\ reqs' = [reqs EXCEPT ![r].tstate = "running"]
    /\ UNCHANGED <<config, one, native>>

\* one iteration of the retry loop of request r's call
two_wrapper(r) ==
    /\ reqs[r].tstate = "running"
    /\ \E o \in OutcomesFor(r) :
        reqs' = [reqs EXCEPT
            ![r].posts = Append(@, o),
            ![r].tstate = IF o.kind = "response" /\ ~is_retried(o) THEN "returned"
                          ELSE IF is_retried(o) /\ has_attempts_left(reqs[r].attempt)
                          THEN "running" ELSE "raised",
            ![r].resp = IF o.kind = "response" /\ ~is_retried(o) THEN o.resp ELSE <<>>,
            ![r].attempt = IF is_retried(o) /\ has_attempts_left(reqs[r].attempt)
                           THEN @ + 1 ELSE @,
            ![r].exc = IF is_retried(o) /\ ~has_attempts_left(reqs[r].attempt)
                       THEN Some([req |-> TRUE, cause |-> o.cause]) ELSE @]
    /\ UNCHANGED <<config, one, native>>

\* the event loop completes api_task of request r
two_api_task_complete(r) ==
    /\ two_suspended(r)
    /\ reqs[r].tstate \in {"returned", "raised"}
    /\ ~reqs[r].task_done
    /\ reqs' = [reqs EXCEPT ![r].task_done = TRUE]
    /\ UNCHANGED <<config, one, native>>

\* the loop test and the body up to its yield or sleep, on the generator's own
\* heartbeat_count and last_heartbeat_time
two_heartbeat_check(r) ==
    /\ reqs[r].pc = "hb_check"
    /\ reqs' = [reqs EXCEPT
        ![r].pc = IF heartbeat_loop_continues(reqs[r].task_done, reqs[r].heartbeat_count,
                                              PSEUDO_STREAMING_MAX_HEARTBEATS)
                  THEN IF heartbeat_due(reqs[r].since, PSEUDO_STREAMING_HEARTBEAT_INTERVAL)
                       THEN "hb_yield" ELSE "hb_sleep"
                  ELSE "await_task",
        ![r].out = IF /\ heartbeat_loop_continues(reqs[r].task_done,
                                                  reqs[r].heartbeat_count,
                                                  PSEUDO_STREAMING_MAX_HEARTBEATS)
                      /\ heartbeat_due(reqs[r].since, PSEUDO_STREAMING_HEARTBEAT_INTERVAL)
                   THEN Append(@, HeartbeatEvent) ELSE @]
    /\ UNCHANGED <<config, one, native>>

two_heartbeat_resume(r) ==
    /\ reqs[r].pc = "hb_yield"
    /\ reqs' = [reqs EXCEPT ![r].pc = "hb_sleep", ![r].since = 0,
                            ![r].heartbeat_count = @ + 1]
    /\ UNCHANGED <<config, one, native>>

two_heartbeat_sleep(r) ==
    /\ reqs[r].pc = "hb_sleep"
    /\ \E d \in 1..MaxIntervalTicks :
        reqs' = [reqs EXCEPT ![r].pc = "hb_check",
                             ![r].since = Min(@ + d, PSEUDO_STREAMING_HEARTBEAT_INTERVAL)]
    /\ UNCHANGED <<config, one, native>>

\* mutant: the task is kept on the client instance, which both requests share
api_task_on_instance(r) == 1

\* the task the generator of request r awaits: its own local api_task
api_task(r) == r

\* resp = await api_task, and everything up to the first yield after it
two_await_api_task(r) ==
    /\ reqs[r].pc = "await_task"
    /\ reqs[api_task(r)].task_done
    /\ reqs' = [reqs EXCEPT
        ![r].pc = "emit",
        ![r].pending = IF reqs[api_task(r)].tstate = "raised"
                       THEN <<api_task_failure_event(reqs[api_task(r)].exc[1])>>
                       ELSE pseudo_response_events(reqs[api_task(r)].resp[1])]
    /\ UNCHANGED <<config, one, native>>

two_emit(r) ==
    /\ reqs[r].pc = "emit"
    /\ reqs[r].pending # <<>>
    /\ reqs' = [reqs EXCEPT ![r].out = Append(@, Head(reqs[r].pending)),
                            ![r].pending = Tail(@)]
    /\ UNCHANGED <<config, one, native>>

two_close(r) ==
    /\ reqs[r].pc = "emit"
    /\ reqs[r].pending = <<>>
    /\ reqs' = [reqs EXCEPT ![r].pc = "closed"]
    /\ UNCHANGED <<config, one, native>>

NextTwo ==
    \/ \E r \in Requests : two_generator_start(r)
    \/ \E r \in Requests : two_api_task_start(r)
    \/ \E r \in Requests : two_wrapper(r)
    \/ \E r \in Requests : two_api_task_complete(r)
    \/ \E r \in Requests : two_heartbeat_check(r)
    \/ \E r \in Requests : two_heartbeat_resume(r)
    \/ \E r \in Requests : two_heartbeat_sleep(r)
    \/ \E r \in Requests : two_await_api_task(r)
    \/ \E r \in Requests : two_emit(r)
    \/ \E r \in Requests : two_close(r)

SpecTwo == InitTwo /\ [][NextTwo]_vars

(***************************************************************************)
(* Vocabulary of the properties.                                           *)
(***************************************************************************)
\* the output is complete: the document was returned, or the stream closed
Finished == pc \in {"done", "closed"}

\* everything the client received: the document of a plain response, or the
\* events of the stream
Output ==
    IF response # <<>> /\ response[1].type = "Response" THEN response[1].body ELSE out

CountType(events, t) == Cardinality({i \in DOMAIN events : events[i].type = t})

ValidSession == creds /\ project_id

\* the upstream call gave up on a network-layer error
CallFailedOnNetwork == tstate = "raised" /\ exc[1].req

NetworkFailures == {i \in DOMAIN posts : posts[i].outcome.kind = "RequestException"}

\* rows of the mode-selection table
TrueStreamingRow == ValidSession /\ is_streaming /\ ~PSEUDO_STREAMING_ENABLED
PseudoStreamingRow == ValidSession /\ is_streaming /\ PSEUDO_STREAMING_ENABLED
DirectRow == ValidSession /\ ~is_streaming /\ ~NONSTREAM_KEEPALIVE_ENABLED
KeepaliveRow == ValidSession /\ ~is_streaming /\ NONSTREAM_KEEPALIVE_ENABLED

PostsGoTo(action, alt_sse, streamArg) ==
    \A i \in DOMAIN posts :
        /\ posts[i].action = action
        /\ posts[i].alt_sse = alt_sse
        /\ posts[i].stream = streamArg

(***************************************************************************)
(* C1                                                                      *)
(***************************************************************************)
\* C1: every finished output has exactly one terminal outcome: content and no
\* error event, or exactly one error and no content event; never both, never
\* neither.
C1_OneTerminalOutcome ==
    Finished =>
        \/ CountType(Output, "content") >= 1 /\ CountType(Output, "error") = 0
        \/ CountType(Output, "content") = 0 /\ CountType(Output, "error") = 1

(***************************************************************************)
(* C2                                                                      *)
(***************************************************************************)
\* C2: with the credential or the project id missing, send_request returns one
\* error document, status 500, kind auth_error, and no upstream call is made,
\* whatever is_streaming and the pseudo-streaming and keepalive flags are.
C2_AuthShortCircuit ==
    ((~creds \/ ~project_id) /\ pc # "start") =>
        /\ pc = "done"
        /\ response # <<>>
        /\ response[1].type = "Response"
        /\ response[1].status_code = 500
        /\ Len(response[1].body) = 1
        /\ response[1].body[1].type = "error"
        /\ response[1].body[1].kind = Some("auth_error")
        /\ response[1].body[1].code = Some(500)
        /\ calls = 0
        /\ posts = <<>>
        /\ out = <<>>

C2_Witness ==
    /\ creds /\ ~project_id
    /\ is_streaming /\ PSEUDO_STREAMING_ENABLED /\ NONSTREAM_KEEPALIVE_ENABLED
    /\ pc = "done"
    /\ response[1].body[1].kind = Some("auth_error")

(***************************************************************************)
(* C3                                                                      *)
(***************************************************************************)
\* C3: at most 3 attempts are made for one call; every attempt but the last
\* failed with a network-layer error (nothing is attempted after a success);
\* and when the call returns, after k failures (k in 0..2), its result is the
\* response of attempt k+1 and exactly k+1 attempts were made.
C3_RetryUntilSuccess ==
    /\ Len(posts) <= 3
    /\ \A i \in 1..(Len(posts) - 1) : posts[i].outcome.kind = "RequestException"
    /\ tstate = "returned" =>
        /\ posts[Len(posts)].outcome.kind = "response"
        /\ resp = posts[Len(posts)].outcome.resp
        /\ Cardinality(NetworkFailures) \in 0..2
        /\ Len(posts) = Cardinality(NetworkFailures) + 1

C3_Witness ==
    /\ tstate = "returned"
    /\ Len(posts) = 3
    /\ posts[1].outcome.kind = "RequestException"
    /\ posts[2].outcome.kind = "RequestException"
    /\ resp[1].status_code = 200

(***************************************************************************)
(* C4                                                                      *)
(***************************************************************************)
\* C4 as stated: when all 3 attempts fail with a network-layer error, exactly 3
\* attempts were made and send_request returns an error response with status
\* 500 whose message is "Request failed after retries: " and the last cause.
C4_Original ==
    (Finished /\ CallFailedOnNetwork) =>
        /\ Len(posts) = 3
        /\ response[1].type = "Response"
        /\ response[1].status_code = 500
        /\ response[1].body[1].type = "error"
        /\ response[1].body[1].message
               = <<"Request failed after retries: ", posts[3].outcome.cause>>

\* C4 amended: when all 3 attempts fail with a network-layer error, exactly 3
\* attempts were made; outside pseudo-streaming send_request returns a plain
\* error response with status 500 and message "Request failed after retries: "
\* plus the last cause; in pseudo-streaming send_request has returned a 200
\* stream, whose last event is an error with code 500 and message
\* "API request failed: " plus the last cause.
C4_FailureAfterRetries ==
    (Finished /\ CallFailedOnNetwork) =>
        /\ Len(posts) = 3
        /\ \A i \in 1..3 : posts[i].outcome.kind = "RequestException"
        /\ IF is_streaming /\ PSEUDO_STREAMING_ENABLED
           THEN /\ response[1].type = "StreamingResponse"
                /\ response[1].status_code = 200
                /\ out # <<>>
                /\ out[Len(out)].type = "error"
                /\ out[Len(out)].code = Some(500)
                /\ out[Len(out)].message
                       = <<"API request failed: ", posts[3].outcome.cause>>
           ELSE /\ response[1].type = "Response"
                /\ response[1].status_code = 500
                /\ response[1].body[1].type = "error"
                /\ response[1].body[1].message
                       = <<"Request failed after retries: ", posts[3].outcome.cause>>

C4_Witness ==
    /\ pc = "done"
    /\ ~is_streaming
    /\ CallFailedOnNetwork
    /\ posts[1].outcome.cause # posts[3].outcome.cause
    /\ response[1].status_code = 500

(***************************************************************************)
(* C5                                                                      *)
(***************************************************************************)
\* C5: under every strategy, when the upstream call fails with a network error
\* on all 3 attempts, the output ends with an error envelope of kind api_error
\* whose code is 500 or 502.
C5_ApiErrorAfterRetries ==
    (Finished /\ CallFailedOnNetwork) =>
        LET last == Output[Len(Output)]
        IN  /\ last.type = "error"
            /\ last.kind = Some("api_error")
            /\ \/ last.code \in {Some(500), Some(502)}
               \/ last.code = None /\ response[1].status_code \in {500, 502}

(***************************************************************************)
(* C6                                                                      *)
(***************************************************************************)
\* C6: an upstream response with a status other than 200 is never retried: the
\* attempt that received it is the last attempt and its response is the result
\* of the call; the finished output then carries no content and is an error
\* outcome (one error envelope, or the upstream's error status).
C6_ErrorStatusNotRetried ==
    /\ \A i \in DOMAIN posts :
        (posts[i].outcome.kind = "response" /\ posts[i].outcome.resp[1].status_code # 200)
        => /\ i = Len(posts)
           /\ tstate = "returned"
           /\ resp = posts[i].outcome.resp
           /\ Len(posts) = Cardinality(NetworkFailures) + 1
    /\ (Finished /\ resp # <<>> /\ resp[1].status_code # 200) =>
        /\ CountType(Output, "content") = 0
        /\ \/ CountType(Output, "error") = 1
           \/ response[1].status_code = resp[1].status_code

C6_Witness ==
    /\ Finished
    /\ Len(posts) = 1
    /\ resp # <<>>
    /\ resp[1].status_code = 503
    /\ CountType(Output, "error") = 1

C9_DirectRow ==
    DirectRow =>
        /\ calls <= 1
        /\ PostsGoTo("generateContent", FALSE, FALSE)
        /\ out = <<>>
        /\ pc \in {"start", "make_request", "done"}
        /\ response # <<>> =>
            /\ calls = 1
            /\ Len(posts) >= 1
            /\ response[1].type = "Response"
            /\ response[1].gen = "none"
            /\ Len(response[1].body) = 1

C9_Witness ==
    /\ DirectRow
    /\ PSEUDO_STREAMING_ENABLED
    /\ pc = "done"
    /\ Len(posts) = 1
    /\ response[1].status_code = 200
    /\ response[1].body[1].type = "content"

(***************************************************************************)
(* C10                                                                     *)
(***************************************************************************)
\* C10: with is_streaming false and keepalive on, send_request returns a
\* stream-capable response around exactly one non-streaming upstream call.
C10_KeepaliveRow ==
    (KeepaliveRow /\ response # <<>>) =>
        /\ response[1].type = "StreamingResponse"
        /\ calls <= 1
        /\ PostsGoTo("generateContent", FALSE, FALSE)

(***************************************************************************)
(* Vocabulary of the error and streaming properties.                       *)
(***************************************************************************)
\* the upstream call returned a response whose status is not 200
UpstreamErrorStatus == tstate = "returned" /\ resp # <<>> /\ resp[1].status_code # 200

\* the upstream call returned a 200 response
UpstreamOk == tstate = "returned" /\ resp # <<>> /\ resp[1].status_code = 200

IsContent(e) == e.type = "content"
IsHeartbeat(e) == e.type = "heartbeat"

ContentEvents(events) == SelectSeq(events, IsContent)

\* the events without the heartbeats
NonHeartbeatEvents(events) == SelectSeq(events, LAMBDA e : ~IsHeartbeat(e))

\* the last event of `after` is a heartbeat that `before` did not have
HeartbeatEmitted(before, after) ==
    /\ Len(after) = Len(before) + 1
    /\ after[Len(after)].type = "heartbeat"

(***************************************************************************)
(* C11                                                                     *)
(***************************************************************************)
\* C11: for every upstream status other than 200, in the direct, the
\* true-streaming and the pseudo-streaming path, whatever the error body is,
\* the finished output holds exactly one error envelope and no content.
C11_OneEnvelopePerErrorStatus ==
    (Finished /\ UpstreamErrorStatus) =>
        /\ CountType(Output, "error") = 1
        /\ CountType(Output, "content") = 0

(***************************************************************************)
(* C12                                                                     *)
(***************************************************************************)
\* C12: every error envelope produced for an upstream status other than 200 has
\* kind invalid_request_error exactly when the status is 404 and api_error
\* otherwise, has the upstream status as its code, and has the message of the
\* upstream error body when it carries one, else "API error: {status}"; the
\* same in the direct, true-streaming and pseudo-streaming paths.
C12_ErrorMapping ==
    (Finished /\ UpstreamErrorStatus) =>
        \A i \in DOMAIN Output :
            Output[i].type = "error" =>
                /\ Output[i].kind = Some(IF resp[1].status_code = 404
                                         THEN "invalid_request_error" ELSE "api_error")
                /\ Output[i].code = Some(resp[1].status_code)
                /\ Output[i].message = IF resp[1].err = "error_with_message"
                                       THEN UpstreamMessage
                                       ELSE <<"API error: ", ToString(resp[1].status_code)>>

(***************************************************************************)
(* C13                                                                     *)
(***************************************************************************)
\* one event per non-empty line that starts with the marker and parses as
\* JSON, in the order of the lines; nothing for any other line
RECURSIVE RelayExpected(_)
RelayExpected(lines) ==
    IF lines = <<>> THEN <<>>
    ELSE LET l == Head(lines)
         IN  (IF l.empty \/ ~l.marker \/ l.obj = <<>> THEN <<>>
              ELSE <<Doc("content", Some(l.obj[1].payload), None, None, None, None)>>)
             \o RelayExpected(Tail(lines))

\* the true-streaming relay is running, or has run, on a 200 response
RelayOn200 ==
    /\ TrueStreamingRow
    /\ UpstreamOk
    /\ pc \in {"stream_read", "closed"}

\* C13: in the true-streaming relay on a 200 response, the content events are
\* exactly, in upstream order, one per non-empty line read so far that starts
\* with the marker and parses as JSON (the response field unwrapped if present,
\* else the object itself); empty, unmarked and malformed lines give no event
\* and do not stop later lines; when the stream ends without failure these are
\* all the events; and this strategy never emits a heartbeat.
C13_RelayEvents ==
    /\ TrueStreamingRow => CountType(out, "heartbeat") = 0
    /\ RelayOn200 =>
        /\ ContentEvents(out) = RelayExpected(SubSeq(resp[1].lines, 1, pos))
        /\ pc = "closed" => pos = Len(resp[1].lines)
        /\ (pc = "closed" /\ resp[1].fail = "none") => out = RelayExpected(resp[1].lines)

C13_Witness ==
    /\ RelayOn200
    /\ pc = "closed"
    /\ resp[1].fail = "none"
    /\ resp[1].lines = <<LBadData, LData(Obj(FALSE, PHello))>>
    /\ out = <<ContentDoc(PHello)>>

(***************************************************************************)
(* C14                                                                     *)
(***************************************************************************)
\* C14: in the true-streaming relay, when reading the upstream lines fails on
\* the network after j events were emitted (j >= 0), the closed output is those
\* j events unchanged followed by exactly one error envelope with code 502 and
\* kind api_error; nothing follows the error.
C14_MidStreamFailure ==
    (RelayOn200 /\ pc = "closed" /\ resp[1].fail = "RequestException") =>
        LET j == Len(RelayExpected(resp[1].lines))
        IN  /\ Len(out) = j + 1
            /\ SubSeq(out, 1, j) = RelayExpected(resp[1].lines)
            /\ out[j + 1].type = "error"
            /\ out[j + 1].code = Some(502)
            /\ out[j + 1].kind = Some("api_error")

C14_Witness ==
    /\ RelayOn200
    /\ pc = "closed"
    /\ resp[1].fail = "RequestException"
    /\ Len(out) = 3
    /\ out[1].type = "content"
    /\ out[2].type = "content"
    /\ out[3].type = "error"

(***************************************************************************)
(* C15                                                                     *)
(***************************************************************************)
\* the parts of the candidates, in candidate order and then part order
RECURSIVE AllParts(_)
AllParts(candidates) ==
    IF candidates = <<>> THEN <<>>
    ELSE (IF Head(candidates).hasContent THEN Head(candidates).parts ELSE <<>>)
         \o AllParts(Tail(candidates))

\* the pseudo-streaming generator has closed after a 200 response
PseudoClosedOn200 == PseudoStreamingRow /\ pc = "closed" /\ UpstreamOk

\* the 200 body is one JSON object whose payload has a candidates list
OneShotWithCandidates ==
    /\ json_loads(resp[1].lines) # <<>>
    /\ json_loads(resp[1].lines)[1].payload.hasCandidates

\* C15: in pseudo-streaming, for a 200 one-shot response whose candidates hold
\* N parts in total, the closed output has exactly N content events, the i-th
\* holding one candidate with exactly the i-th part (candidate order, then part
\* order).
C15_OneEventPerPart ==
    (PseudoClosedOn200 /\ OneShotWithCandidates) =>
        LET parts == AllParts(json_loads(resp[1].lines)[1].payload.candidates)
            c == ContentEvents(out)
        IN  /\ Len(c) = Len(parts)
            /\ \A i \in DOMAIN c :
                /\ c[i].payload[1].hasCandidates
                /\ Len(c[i].payload[1].candidates) = 1
                /\ c[i].payload[1].candidates[1].parts = <<parts[i]>>

(***************************************************************************)
(* C16                                                                     *)
(***************************************************************************)
\* the content event carries finishReason, safetyRatings or top-level metadata
CarriesMetadata(e) ==
    LET p == e.payload[1]
    IN  \/ p.usageMetadata # None
        \/ p.responseId # None
        \/ \E k \in DOMAIN p.candidates :
            \/ p.candidates[k].finishReason # None
            \/ p.candidates[k].safetyRatings # None

\* C16: in pseudo-streaming, whatever the number of candidates and parts,
\* finishReason, safetyRatings and the top-level metadata are carried by the
\* last content event of the request only: no earlier content event has any.
C16_MetadataOnLastEventOnly ==
    PseudoClosedOn200 =>
        LET c == ContentEvents(out)
        IN  \A i \in 1..(Len(c) - 1) : ~CarriesMetadata(c[i])

(***************************************************************************)
(* C17                                                                     *)
(***************************************************************************)
\* C17: in the concurrent pseudo-streaming generator, in every interleaving of
\* the heartbeat loop and the background call, every heartbeat precedes every
\* content event and every error event: once the first content or error event
\* is out, no heartbeat follows.
C17_HeartbeatsFirst ==
    PseudoStreamingRow =>
        \A i, j \in DOMAIN out :
            (IsHeartbeat(out[i]) /\ out[j].type \in {"content", "error"}) => i < j

C17_Witness ==
    /\ PseudoStreamingRow
    /\ pc = "closed"
    /\ CountType(out, "heartbeat") >= 1
    /\ CountType(out, "content") >= 2

(***************************************************************************)
(* C18                                                                     *)
(***************************************************************************)
\* the worker has come back from _make_request, with a response or an exception
CallResolved == tstate \in {"returned", "raised"}

\* C18 as stated: every heartbeat is emitted while the upstream call is still
\* unresolved, in every interleaving of the worker and the event loop.
C18_Original == [][HeartbeatEmitted(out, out') => ~CallResolved]_vars

\* C18 amended: every heartbeat is emitted while the event loop has not yet
\* completed the background task (api_task.done() is false); no heartbeat is
\* emitted once the task is done.
C18_HeartbeatsWhileTaskPending == [][HeartbeatEmitted(out, out') => ~task_done]_vars

C18_Witness ==
    /\ PseudoStreamingRow
    /\ pc = "hb_yield"
    /\ IsHeartbeat(out[Len(out)])
    /\ CallResolved
    /\ ~task_done

(***************************************************************************)
(* C19                                                                     *)
(***************************************************************************)
\* C19: the heartbeats of one request never exceed the configured maximum (none
\* when it is 0); once the maximum is reached the generator emits no further
\* heartbeat and no timeout error, does not cancel the upstream call, waits for
\* it, and delivers its result, content or error, as the terminal outcome.
C19_HeartbeatCap ==
    PseudoStreamingRow =>
        /\ CountType(out, "heartbeat") <= PSEUDO_STREAMING_MAX_HEARTBEATS
        /\ (pc = "closed" /\ heartbeat_count = PSEUDO_STREAMING_MAX_HEARTBEATS) =>
            /\ CountType(out, "heartbeat") = PSEUDO_STREAMING_MAX_HEARTBEATS
            /\ calls = 1
            /\ CallResolved
            /\ NonHeartbeatEvents(out) =
                   IF tstate = "raised" THEN <<api_task_failure_event(exc[1])>>
                   ELSE pseudo_response_events(resp[1])
            /\ \/ CountType(out, "content") >= 1
               \/ CountType(out, "error") = 1

(***************************************************************************)
(* C20                                                                     *)
(***************************************************************************)
\* C20: in the concurrent pseudo-streaming generator, when the background call
\* raises (after its retries), the closed output is the heartbeats followed by
\* exactly one error envelope with code 500 and kind api_error, and holds no
\* content event.
C20_TaskFailure ==
    (PseudoStreamingRow /\ pc = "closed" /\ tstate = "raised") =>
        LET h == CountType(out, "heartbeat")
        IN  /\ Len(out) = h + 1
            /\ \A i \in 1..h : IsHeartbeat(out[i])
            /\ out[h + 1].type = "error"
            /\ out[h + 1].code = Some(500)
            /\ out[h + 1].kind = Some("api_error")
            /\ CountType(out, "content") = 0

C20_Witness ==
    /\ PseudoStreamingRow
    /\ pc = "closed"
    /\ CallFailedOnNetwork
    /\ Len(posts) = 3
    /\ CountType(out, "heartbeat") >= 1
    /\ out[Len(out)].type = "error"

(***************************************************************************)
(* C21                                                                     *)
(***************************************************************************)
\* C21: a streaming request served by pseudo-streaming has two heartbeats
\* before its first content event, however fast the upstream call answers.
C21_TwoHeartbeatsBeforeContent ==
    (PseudoStreamingRow /\ CountType(out, "content") >= 1) =>
        \E i \in DOMAIN out :
            /\ IsContent(out[i])
            /\ CountType(SubSeq(out, 1, i - 1), "heartbeat") >= 2

(***************************************************************************)
(* Vocabulary of the normalization properties.                             *)
(***************************************************************************)
\* the parts the content events deliver, in order of delivery
RECURSIVE DeliveredParts(_)
DeliveredParts(events) ==
    IF events = <<>> THEN <<>>
    ELSE (IF IsContent(Head(events)) THEN AllParts(Head(events).payload[1].candidates)
          ELSE <<>>)
         \o DeliveredParts(Tail(events))

\* the 200 body is one line, "data: " followed by one JSON object
DataPrefixedOneShot ==
    /\ UpstreamOk
    /\ Len(resp[1].lines) = 1
    /\ ~resp[1].lines[1].empty
    /\ resp[1].lines[1].marker
    /\ resp[1].lines[1].obj # <<>>

\* the same response, its body without the "data: " prefix
Unprefixed(r) == [r EXCEPT !.lines = <<Line(FALSE, FALSE, r.lines[1].obj)>>]

\* the 200 body is a single well-formed JSON object
SingleObject == UpstreamOk /\ json_loads(resp[1].lines) # <<>>

\* t occurs in s
Contains(t, s) == \E i \in 1..(Len(s) - Len(t) + 1) : SubSeq(s, i, i + Len(t) - 1) = t

\* the texts of the parts of the JSON objects embedded in the lines
EmbeddedTexts(lines) ==
    {p.text : p \in UNION {
        {c.parts[k] : k \in DOMAIN c.parts} :
            c \in UNION {
                {o.payload.candidates[k] : k \in DOMAIN o.payload.candidates} :
                    o \in {lines[i].obj[1] : i \in {j \in DOMAIN lines : lines[j].obj # <<>>}}}}}

(***************************************************************************)
(* C22                                                                     *)
(***************************************************************************)
\* C22: a 200 one-shot body prefixed with "data: " is delivered as the same
\* body without the prefix is: the same document in the direct path, the same
\* parts in the same order in the pseudo-streaming path.
C22_DataPrefixStripped ==
    (Finished /\ ValidSession /\ DataPrefixedOneShot) =>
        /\ ~is_streaming =>
            response[1] = handle_non_streaming_response(Unprefixed(resp[1]))
        /\ (is_streaming /\ PSEUDO_STREAMING_ENABLED) =>
            DeliveredParts(out) = DeliveredParts(pseudo_response_events(Unprefixed(resp[1])))

(***************************************************************************)
(* C23                                                                     *)
(***************************************************************************)
\* C23: for a 200 body that is a single well-formed JSON object, the delivered
\* payload is the value of its response key when it has one and the whole
\* object when it has none, in the direct path and in the pseudo-streaming
\* path.
C23_UnwrapOrWhole ==
    (Finished /\ ValidSession /\ SingleObject) =>
        LET payload == json_loads(resp[1].lines)[1].payload
        IN  /\ ~is_streaming => Output = <<ContentDoc(payload)>>
            /\ (is_streaming /\ PSEUDO_STREAMING_ENABLED /\ CountType(out, "error") = 0) =>
                IF payload.hasCandidates
                THEN DeliveredParts(out) = AllParts(payload.candidates)
                ELSE ContentEvents(out) = <<ContentDoc(payload)>>

(***************************************************************************)
(* C24                                                                     *)
(***************************************************************************)
\* C24: for every 200 body that is not one JSON object but embeds at least one
\* JSON object with text, pseudo-streaming delivers a content event that
\* contains that text.
C24_FallbackRecoversText ==
    (PseudoClosedOn200 /\ ~SingleObject) =>
        \A t \in EmbeddedTexts(resp[1].lines) :
            \E i \in DOMAIN out :
                /\ IsContent(out[i])
                /\ \E k \in DOMAIN DeliveredParts(<<out[i]>>) :
                    Contains(t, DeliveredParts(<<out[i]>>)[k].text)

(***************************************************************************)
(* C25                                                                     *)
(***************************************************************************)
\* the 200 body does not parse, with or without a "data: " prefix, and no line
\* of it embeds an object with text
NothingRecoverable ==
    /\ UpstreamOk
    /\ json_loads(resp[1].lines) = <<>>
    /\ json_loads(strip_data_prefix(resp[1].lines)) = <<>>
    /\ EmbeddedTexts(resp[1].lines) = {}

\* C25: when a 200 body cannot be parsed and nothing can be recovered from it,
\* the request ends with exactly one error envelope, kind content_error, code
\* 500, message "No valid content found in response", and no content; in
\* pseudo-streaming the envelope is a single event.
C25_ContentErrorEnvelope ==
    (Finished /\ ValidSession /\ NothingRecoverable
        /\ (~is_streaming \/ PSEUDO_STREAMING_ENABLED)) =>
        /\ CountType(Output, "content") = 0
        /\ CountType(Output, "error") = 1
        /\ \A i \in DOMAIN Output :
            Output[i].type = "error" =>
                /\ Output[i].kind = Some("content_error")
                /\ Output[i].code = Some(500)
                /\ Output[i].message = <<"No valid content found in response", "">>

ClosedAfterFinalFrame ==
    /\ pc = "closed"
    /\ out # <<>>
    /\ out[Len(out)].type \in {"content", "error"}

\* the request was answered with a single document
AnsweredByDocument == pc = "done" /\ response # <<>>

\* C27: provided every upstream attempt eventually returns or fails and the
\* client keeps consuming, every request eventually reaches its end, and a
\* stream reaches its closed state after a final content or error frame, under
\* every strategy and every heartbeat cap.
C27_EventuallyClosedAfterFinalFrame == <>(AnsweredByDocument \/ ClosedAfterFinalFrame)

(***************************************************************************)
(* C30                                                                     *)
(***************************************************************************)
\* C30: an error envelope is always terminal: in every stream of every strategy
\* at most one error event is emitted and it is the last event; no heartbeat,
\* content or second error follows it.
C30_ErrorIsTerminal ==
    /\ CountType(out, "error") <= 1
    /\ \A i \in DOMAIN out : out[i].type = "error" => i = Len(out)
    /\ (out # <<>> /\ out[Len(out)].type = "error") => pending = <<>>

C30_Witness ==
    /\ PseudoStreamingRow
    /\ pc = "closed"
    /\ Len(out) = 3
    /\ IsHeartbeat(out[1])
    /\ IsContent(out[2])
    /\ out[3].type = "error"

(***************************************************************************)
(* C29                                                                     *)
(***************************************************************************)
\* the client has disconnected
Disconnected == pc \in {"closing", "disconnected"}

\* C29: once the client has disconnected from a pseudo-streaming or
\* true-streaming request the generator emits no further event, neither
\* heartbeat nor content nor error, and never resumes; an upstream call still
\* in flight may run to completion, and its result is never emitted.
C29_NoEventAfterDisconnect ==
    [][Disconnected => (out' = out /\ pc' \in {"closing", "disconnected"})]_vars

C29_Witness ==
    /\ PseudoStreamingRow
    /\ pc = "disconnected"
    /\ tstate = "returned"
    /\ task_done
    /\ resp[1].status_code = 200
    /\ pseudo_response_events(resp[1]) # <<>>
    /\ out = <<HeartbeatEvent>>

(***************************************************************************)
(* C28                                                                     *)
(***************************************************************************)
\* what the generator of a request emits after its heartbeats when it runs
\* alone against the upstream behaviour recorded in the request's own attempts
SoloEvents(q) ==
    LET last == q.posts[Len(q.posts)]
    IN  IF last.kind = "response" THEN pseudo_response_events(last.resp[1])
        ELSE <<api_task_failure_event([req |-> TRUE, cause |-> last.cause])>>

OwnFailures(q) == Cardinality({i \in DOMAIN q.posts : q.posts[i].kind = "RequestException"})

\* C28: two requests served concurrently by the same client instance share no
\* state: in every interleaving each request's retry attempt count, heartbeat
\* count and event sequence are those of a run of its own against its own
\* upstream behaviour, and no event of one request is in the other's output.
C28_NoSharedState ==
    \A r \in DOMAIN reqs :
        LET q == reqs[r]
            hb == CountType(q.out, "heartbeat")
            e == NonHeartbeatEvents(q.out)
        IN  /\ Len(q.posts) <= retries
            /\ q.attempt = Min(OwnFailures(q), retries - 1)
            /\ hb <= PSEUDO_STREAMING_MAX_HEARTBEATS
            /\ q.heartbeat_count <= hb
            /\ hb <= q.heartbeat_count + 1
            /\ \A i \in 1..hb : IsHeartbeat(q.out[i])
            /\ (e # <<>> \/ q.pc = "closed") =>
                /\ Len(q.posts) >= 1
                /\ Len(e) <= Len(SoloEvents(q))
                /\ e = SubSeq(SoloEvents(q), 1, Len(e))
                /\ q.pc = "closed" => e = SoloEvents(q)
            /\ \A i \in DOMAIN q.out :
                IsContent(q.out[i]) =>
                    /\ \E k \in DOMAIN fragment(UpstreamFor(r)) :
                        q.out[i] = fragment(UpstreamFor(r))[k]
                    /\ \A r2 \in DOMAIN reqs \ {r} :
                        \A k \in DOMAIN fragment(UpstreamFor(r2)) :
                            q.out[i] # fragment(UpstreamFor(r2))[k]

C28_Witness ==
    /\ reqs # <<>>
    /\ reqs[1].pc = "closed"
    /\ reqs[2].pc = "closed"
    /\ reqs[1].attempt = 2
    /\ reqs[2].attempt = 0
    /\ CountType(reqs[1].out, "heartbeat") = 2
    /\ CountType(reqs[2].out, "heartbeat") = 0
    /\ CountType(reqs[1].out, "content") = 1
    /\ CountType(reqs[2].out, "content") = 2

(***************************************************************************)
(* C31                                                                     *)
(***************************************************************************)
ErrorKinds == {"auth_error", "invalid_request_error", "api_error", "content_error"}

\* an ErrorEnvelope: a message, a kind of the four, and a code
WellFormedEnvelope(e) ==
    /\ e.message # None
    /\ e.kind # None
    /\ e.kind[1] \in ErrorKinds
    /\ e.code # None
    /\ e.code[1] \in Int

\* C31: every error outcome, at whatever failure boundary it is produced
\* (missing credential or project, network failure after the retries, unexpected
\* exception, non-200 status, mid-stream failure, failure of the background
\* task), is a well-formed ErrorEnvelope: it carries a message, a kind that is
\* one of auth_error, invalid_request_error, api_error, content_error, and an
\* integer code.
C31_WellFormedEnvelopes ==
    \A i \in DOMAIN Output : Output[i].type = "error" => WellFormedEnvelope(Output[i])

(***************************************************************************)
(* Recovery of multi-line bodies: the generator from "resp = await         *)
(* api_task" on, for 200 bodies made of several lines whose objects differ *)
(* in their parts and in their metadata.                                   *)
(***************************************************************************)
PThought ==
    Payload(TRUE, <<Candidate(TRUE, TRUE, <<Part(<<"think">>, TRUE)>>, None, None)>>,
            None, None)
PLast ==
    Payload(TRUE,
            <<Candidate(TRUE, TRUE, <<Part(<<"!">>, FALSE)>>, Some("MAX_TOKENS"), Some("safe2"))>>,
            Some("usage2"), Some("rid2"))

RecoveryLines ==
    {LEmpty, LBadData, LGarbage, LData(Obj(FALSE, PHello)), LPlain(Obj(TRUE, PHello))}
    \cup {LData(Obj(TRUE, p)) :
            p \in {PThought, PHello, PTwoParts, PTwoCandidates, PLast, PNoCandidates}}

RecoveryBodies == SeqsUpTo(RecoveryLines, MaxLines)

\* the upstream has answered 200 on the first attempt and the event loop has
\* completed api_task before the first heartbeat was due
InitRecovery ==
    /\ creds = TRUE
    /\ project_id = TRUE
    /\ is_streaming = TRUE
    /\ PSEUDO_STREAMING_ENABLED = TRUE
    /\ NONSTREAM_KEEPALIVE_ENABLED = FALSE
    /\ PSEUDO_STREAMING_MAX_HEARTBEATS \in 0..MaxHeartbeatCap
    /\ PSEUDO_STREAMING_HEARTBEAT_INTERVAL \in 1..MaxIntervalTicks
    /\ \E b \in RecoveryBodies :
        /\ resp = Some(Resp(200, b, "none", "none"))
        /\ posts = <<[action |-> "generateContent", alt_sse |-> FALSE, stream |-> FALSE,
                      outcome |-> Outcome("response", "", resp)]>>
    /\ pc = "await_task"
    /\ tstate = "returned"
    /\ task_done = TRUE
    /\ attempt = 0 /\ calls = 1 /\ sleeps = <<>> /\ exc = <<>>
    /\ heartbeat_count = 0 /\ since = 0
    /\ response = Some(StreamingResponse(200, "concurrent_stream_generator"))
    /\ pending = <<>> /\ pos = 0 /\ slept = 0
    /\ target_url = Some(target(TRUE, TRUE))
    /\ stream = FALSE
    /\ out = <<>>
    /\ reqs = <<>>
    /\ native = NoNativeCall

NextRecovery ==
    \/ await_api_task
    \/ emit
    \/ close

SpecRecovery == InitRecovery /\ [][NextRecovery]_vars

(***************************************************************************)
(* C32                                                                     *)
(***************************************************************************)
RECURSIVE Flatten(_)
Flatten(seqs) == IF seqs = <<>> THEN <<>> ELSE Head(seqs) \o Flatten(Tail(seqs))

\* the payloads of the data lines, in order of appearance
DataPayloads(lines) ==
    LET d == SelectSeq(lines, LAMBDA l : ~l.empty /\ l.marker /\ l.obj # <<>>
                                          /\ l.obj[1].wrapped)
    IN  [i \in DOMAIN d |-> d[i].obj[1].payload]

DataCandidates(lines) ==
    Flatten([i \in DOMAIN DataPayloads(lines) |-> DataPayloads(lines)[i].candidates])

\* the text of the parts of one sort, joined in order of appearance
JoinedText(lines, thought) ==
    LET parts == SelectSeq(AllParts(DataCandidates(lines)), LAMBDA p : p.thought = thought)
    IN  Flatten([i \in DOMAIN parts |-> parts[i].text])

\* the last value present in a sequence of optional values
LastOccurrence(values) ==
    LET present == SelectSeq(values, LAMBDA v : v # None)
    IN  IF present = <<>> THEN None ELSE present[Len(present)]

\* the body went through the fallback and something was recovered from it
Recovered ==
    /\ PseudoClosedOn200
    /\ json_loads(resp[1].lines) = None
    /\ \/ JoinedText(resp[1].lines, FALSE) # <<>>
       \/ JoinedText(resp[1].lines, TRUE) # <<>>

C33_DeterministicInResponse ==
    (PseudoStreamingRow /\ pc = "closed" /\ tstate = "returned") =>
        NonHeartbeatEvents(out) = pseudo_response_events(resp[1])

\* a slow run: two failed attempts and two heartbeats before the two parts
C33_Witness ==
    /\ PseudoStreamingRow
    /\ pc = "closed"
    /\ tstate = "returned"
    /\ attempt = 2
    /\ CountType(out, "heartbeat") = 2
    /\ resp[1].lines = <<LPlain(Obj(TRUE, PTwoParts))>>
    /\ Len(ContentEvents(out)) = 2

(***************************************************************************)
(* C34                                                                     *)
(***************************************************************************)
\* the true-streaming relay is between two upstream lines, or has finished
RelayBetweenLines ==
    /\ response # <<>>
    /\ response[1].gen = "stream_generator"
    /\ pc \in {"stream_read", "closed"}

\* C34: in the true-streaming relay the generator yields control to the event
\* loop after each event it emits, for objects with a response field and for
\* objects passed through unchanged alike, before it reads the next upstream
\* line: between two lines it has slept once for every content event emitted.
C34_YieldsControlAfterEachEvent ==
    RelayBetweenLines => slept = CountType(out, "content")

(***************************************************************************)
(* C35                                                                     *)
(***************************************************************************)
\* C35: in the retrying transport every delay has the same fixed length and
\* one delay separates each two consecutive attempts: a call that has made a
\* attempts and goes on has slept a times, a call that has ended with a
\* attempts has slept a-1 times, so no delay follows a successful attempt or
\* the final failed attempt.
C35_FixedDelayBetweenAttempts ==
    /\ \A i \in DOMAIN sleeps : sleeps[i] = delay
    /\ tstate \in {"idle", "scheduled"} => (posts = <<>> /\ sleeps = <<>>)
    /\ tstate = "running" => Len(sleeps) = Len(posts)
    /\ CallResolved => Len(sleeps) = Len(posts) - 1

\* the call fails at its third attempt, after two delays
C35_Witness ==
    /\ tstate = "raised"
    /\ exc[1].req
    /\ Len(posts) = retries
    /\ sleeps = <<delay, delay>>

(***************************************************************************)
(* C36                                                                     *)
(***************************************************************************)
\* the call ended with an exception that is not a RequestException
CallFailedUnexpectedly == tstate = "raised" /\ ~exc[1].req

\* C36: an exception of the upstream call that is not a network-layer error is
\* not retried: the attempt that raised it is the last one, no delay follows it
\* and it propagates (after exactly one attempt when the first attempt raised
\* it); in the direct and true-streaming paths send_request does not raise but
\* returns a 500 response whose message starts with "Unexpected error: ".
C36_UnexpectedExceptionNotRetried ==
    /\ \A i \in DOMAIN posts :
        posts[i].outcome.kind = "Exception" =>
            /\ i = Len(posts)
            /\ Len(sleeps) = i - 1
            /\ tstate = "raised"
            /\ exc = Some([req |-> FALSE, cause |-> posts[i].outcome.cause])
    /\ (CallFailedUnexpectedly /\ ~(is_streaming /\ PSEUDO_STREAMING_ENABLED)) =>
        /\ pc \in {"make_request", "done"}
        /\ out = <<>>
        /\ pc = "done" =>
            /\ response # <<>>
            /\ response[1].type = "Response"
            /\ response[1].status_code = 500
            /\ Len(response[1].body) = 1
            /\ response[1].body[1].type = "error"
            /\ response[1].body[1].message = <<"Unexpected error: ", exc[1].cause>>

C36_Witness ==
    /\ TrueStreamingRow
    /\ pc = "done"
    /\ Len(posts) = 1
    /\ posts[1].outcome.kind = "Exception"
    /\ response[1].status_code = 500
    /\ response[1].body[1].message[1] = "Unexpected error: "

(***************************************************************************)
(* C37                                                                     *)
(***************************************************************************)
NoHeartbeatYet == CountType(out, "heartbeat") = 0

\* a heartbeat is emitted only when a full interval has passed since the
\* generator started or since the heartbeat before it
HeartbeatAfterFullInterval ==
    HeartbeatEmitted(out, out') => since >= PSEUDO_STREAMING_HEARTBEAT_INTERVAL

\* the worker has come back from the call, and the first interval has not
\* elapsed
ResolvedInFirstInterval ==
    /\ PseudoStreamingRow
    /\ CallResolved
    /\ NoHeartbeatYet
    /\ heartbeat_count = 0
    /\ pc \in {"hb_check", "hb_sleep"}
    /\ since < PSEUDO_STREAMING_HEARTBEAT_INTERVAL

OneShotWithoutCandidates ==
    /\ SingleObject
    /\ ~json_loads(resp[1].lines)[1].payload.hasCandidates

\* C38: in pseudo-streaming, a 200 response that parses as one JSON object
\* with no candidates field (after unwrapping response if present) produces,
\* after the heartbeats, exactly one content event, which carries the whole
\* payload, and then the stream closes.
C38_WholePayloadWithoutCandidates ==
    (PseudoClosedOn200 /\ OneShotWithoutCandidates) =>
        /\ NonHeartbeatEvents(out) = <<ContentDoc(json_loads(resp[1].lines)[1].payload)>>
        /\ out[Len(out)] = ContentDoc(json_loads(resp[1].lines)[1].payload)

C38_Witness ==
    /\ PseudoClosedOn200
    /\ resp[1].lines = <<LPlain(Obj(TRUE, PNoCandidates))>>
    /\ out = <<HeartbeatEvent, ContentDoc(PNoCandidates)>>

(***************************************************************************)
(* The native payload builder, applied again and again to one request      *)
(* object, for any model of the path.                                      *)
(***************************************************************************)
ModelNames ==
    {"models/gemini-2.5-pro", "models/gemini-2.5-pro-search",
     "models/gemini-2.5-pro-nothinking", "models/gemini-2.5-pro-maxthinking",
     "models/gemini-2.5-pro-search-nothinking", "models/gemini-2.5-flash-nothinking"}

FunctionTool == Tool("functionDeclarations", <<"get_weather">>)

\* the requests a client can send: without tools, with tools that are no
\* search tools, and with a googleSearch tool of its own, empty or configured
NativeRequests ==
    {NativeRequest(tools[1], tools[2], safetySettings, generationConfig) :
        tools \in {<<FALSE, <<>>>>, <<TRUE, <<>>>>, <<TRUE, <<FunctionTool>>>>,
                   <<TRUE, <<GoogleSearchTool>>>>,
                   <<TRUE, <<FunctionTool, GoogleSearchTool>>>>,
                   <<TRUE, <<Tool("googleSearch", <<"dynamicRetrievalConfig">>)>>>>},
        safetySettings \in {None, Some("custom")},
        generationConfig \in {None, Some([thinkingConfig |-> None]),
                              Some([thinkingConfig |->
                                        Some([includeThoughts |-> FALSE,
                                              thinkingBudget |-> 0])])}}

\* the request object as the route hands it to the function for the first time;
\* no request has been sent yet
InitNative ==
    /\ creds = TRUE
    /\ project_id = TRUE
    /\ is_streaming = FALSE
    /\ PSEUDO_STREAMING_ENABLED = FALSE
    /\ NONSTREAM_KEEPALIVE_ENABLED = FALSE
    /\ PSEUDO_STREAMING_MAX_HEARTBEATS = 0
    /\ PSEUDO_STREAMING_HEARTBEAT_INTERVAL = 1
    /\ pc = "start" /\ tstate = "idle" /\ attempt = 0 /\ posts = <<>> /\ calls = 0
    /\ sleeps = <<>> /\ resp = <<>> /\ exc = <<>> /\ task_done = FALSE
    /\ heartbeat_count = 0 /\ since = 0 /\ response = <<>> /\ pending = <<>>
    /\ pos = 0 /\ slept = 0 /\ target_url = <<>> /\ stream = FALSE /\ out = <<>>
    /\ reqs = <<>>
    /\ native \in {[NoNativeCall EXCEPT !.request = request] : request \in NativeRequests}

\* one call build_gemini_payload_from_native(native_request, model_from_path):
\* it changes the request object in place and returns it with the base model
build_gemini_payload_from_native ==
    /\ native.builds < MaxBuilds
    /\ \E model_from_path \in ModelNames :
        native' = [request |-> built_request(native.request, model_from_path),
                   builds |-> native.builds + 1,
                   model_from_path |-> Some(model_from_path),
                   result |-> Some([model |-> get_base_model_name(model_from_path)])]
    /\ UNCHANGED <<config, one, reqs>>

NextNative == build_gemini_payload_from_native

SpecNative == InitNative /\ [][NextNative]_vars

(***************************************************************************)
(* C39                                                                     *)
(***************************************************************************)
\* the number of tools of the request that have the googleSearch key
GoogleSearchCount(request) ==
    Cardinality({i \in DOMAIN request.tools : request.tools[i].key = "googleSearch"})

\* C39: build_gemini_payload_from_native for a search model leaves the request
\* with exactly one googleSearch tool, whether the request had none or already
\* had one (from the client, or from an earlier call on the same object), and
\* for a model that is no search model it adds no tool.
C39_GoogleSearchIdempotent ==
    [][native'.builds = native.builds + 1 =>
        IF is_search_model(native'.model_from_path[1])
        THEN /\ native'.request.hasTools
             /\ GoogleSearchCount(native.request) <= 1 =>
                    GoogleSearchCount(native'.request) = 1
        ELSE /\ native'.request.tools = native.request.tools
             /\ native'.request.hasTools = native.request.hasTools]_vars
====
